---- MODULE Spec2Model ----
(***************************************************************************)
(* Cross-thread parameter synchronisation of the Baseview gain plugin.     *)
(*                                                                         *)
(* Four threads act on the shared state:                                   *)
(*   - the host automation thread  (set_parameter, lib.rs 38-58)           *)
(*   - the audio thread            (process / process_gui_msgs, 86-107)    *)
(*   - the editor thread           (open / close / is_open, 235-281)       *)
(*   - the GUI thread              (the Bevy systems of editor_app.rs)     *)
(*                                                                         *)
(* A gain is the number itself; the inputs are whole numbers (0.0, 1.0,    *)
(* 2.0 and pointer moves of 200 pixels), on which every f32 and f64        *)
(* operation of the code is exact.  Option<T> is a sequence of length 0    *)
(* or 1.                                                                   *)
(***************************************************************************)
EXTENDS Integers, Sequences, FiniteSets, TLC

\* ---------------------------------------------------------------- bounds
\* Capacity of each bounded channel in the model (the code's is 128).
ChannelCapacity == 1
\* set_parameter calls the host makes in one run, at most.
MaxSetCalls == 1
\* GuiToHost events the knob emits in one run, at most.
MaxGuiEmits == 2

\* ------------------------------------------------------------- constants
\* const WINDOW_HEIGHT (logical pixels).
WINDOW_HEIGHT == 300

\* Values the host passes to set_parameter: 0.0 and 2.0.
HostValues == {0, 2}
\* Parameter indices the host uses: the gain and one it does not own.
HostIndices == {0, 1}
\* CursorPosition: the rows (y, logical pixels) cursor_position stores from
\* CursorMoved events; a system that reads it finds any of them.
CursorYs == {0, 200}

None == <<>>
Some(v) == <<v>>
IsSome(o) == Len(o) = 1
Unwrap(o) == o[1]

Abs(x) == IF x < 0 THEN -x ELSE x
Last(s) == s[Len(s)]

\* ------------------------------------------------------------ conversions
\* `value as f32` on a whole number: exact up to 2^24, beyond that rounded
\* to the nearest even number (ties to the even mantissa).
AsF32(x) ==
    IF Abs(x) <= 16777216 \/ x % 2 = 0 THEN x
    ELSE IF (x + 1) % 4 = 0 THEN x + 1 ELSE x - 1
\* `value as f64`: widening, exact.
AsF64(x) == x
\* f64::clamp(0.0, 1.0)
Clamp01(x) == IF x < 0 THEN 0 ELSE IF x > 1 THEN 1 ELSE x

VARIABLES
    gain,             \* BaseviewDemoParameters.gain (AtomicFloat, f32)
    host_to_gui_tx,   \* slot: TRUE iff Some(sender)
    gui_to_host_rx,   \* slot: TRUE iff Some(receiver)
    h2g,              \* queue of the Host-to-GUI channel
    g2h,              \* queue of the GUI-to-Host channel
    open,             \* BaseviewDemoEditor.open
    ed,               \* editor thread: position inside open()/close()
    open_result,      \* return value of the last open() since the last close(), Option
    gui_running,      \* the Bevy App (and its channel endpoints) exists
    host_events,      \* Events<HostToGui>: relayed, not yet consumed
    gui_events,       \* Events<GuiToHost>: emitted, not yet relayed
    relaying,         \* gui_to_host_relay is inside its loop
    app_state,        \* State<AppState>
    drag_start,       \* DragState.start (y), Option
    current,          \* GainValue.current (f64)
    proposed,         \* GainValue.proposed, Option
    sp,               \* host thread: position inside set_parameter, or "panicked"
    sp_index,         \* set_parameter's index argument
    sp_value,         \* set_parameter's value argument
    ap,               \* audio thread: position inside process
    updated_gain,     \* process_gui_msgs' local, Option
    automation,       \* host callbacks made by the running process call
    polled,           \* history: events received by the running process call (0, 1, many)
    last_polled,      \* history: the last event it received, Option
    written,          \* history: values it stored into gain
    prepop,           \* history: gain read by open() for a GUI not yet synced, Option
    gui_synced,       \* history: this GUI has consumed a Host-to-GUI event
    drag_at_close,    \* history: the last close() found a drag in progress
    n_set,            \* history: set_parameter calls so far
    n_emit            \* history: GuiToHost events emitted so far

vars == <<gain, host_to_gui_tx, gui_to_host_rx, h2g, g2h, open, ed, open_result,
          gui_running, host_events, gui_events, relaying, app_state, drag_start,
          current, proposed, sp, sp_index, sp_value, ap, updated_gain,
          automation, polled, last_polled, written, prepop, gui_synced,
          drag_at_close, n_set, n_emit>>

storeVars == <<gain>>
slotVars == <<host_to_gui_tx, gui_to_host_rx>>
editorVars == <<open, ed, open_result, prepop, drag_at_close>>
guiVars == <<gui_running, host_events, gui_events, relaying, app_state,
             drag_start, current, proposed, gui_synced, n_emit>>
hostVars == <<sp, sp_index, sp_value, n_set>>
audioVars == <<ap, updated_gain, automation, polled, last_polled, written>>

\* ----------------------------------------------------------------- locks
\* RwLock guards are held exactly at these positions.
TxReadHeld == sp = "send"
TxWriteHeld == ed \in {"open_tx_locked", "close_tx_locked"}
RxReadHeld == ap = "drain"
RxWriteHeld == ed \in {"open_rx_locked", "close_rx_locked"}

\* ------------------------------------------------------------------ Init
\* Plugin::new, BaseviewDemoEditor::new; no GUI exists yet.
Init ==
    /\ gain = 1
    /\ host_to_gui_tx = FALSE
    /\ gui_to_host_rx = FALSE
    /\ h2g = <<>>
    /\ g2h = <<>>
    /\ open = FALSE
    /\ ed = "idle"
    /\ open_result = None
    /\ gui_running = FALSE
    /\ host_events = <<>>
    /\ gui_events = <<>>
    /\ relaying = FALSE
    /\ app_state = "Idle"
    /\ drag_start = None
    /\ current = 0
    /\ proposed = None
    /\ sp = "idle"
    /\ sp_index = 0
    /\ sp_value = 0
    /\ ap = "idle"
    /\ updated_gain = None
    /\ automation = <<>>
    /\ polled = 0
    /\ last_polled = None
    /\ written = <<>>
    /\ prepop = None
    /\ gui_synced = FALSE
    /\ drag_at_close = FALSE
    /\ n_set = 0
    /\ n_emit = 0

\* ------------------------------------------------------- Parameter Store
\* AtomicFloat::set as set_parameter uses it: the value is stored as given.
StoreValue(value) == value

get_parameter(index) == IF index = 0 THEN gain ELSE 0

\* ------------------------------------------------- host thread: set_parameter
\* lines 38-42: log, then gain.set(value) for index 0.
set_parameter_store ==
    /\ sp = "idle"
    /\ n_set < MaxSetCalls
    /\ n_set' = n_set + 1
    /\ \E index \in HostIndices, value \in HostValues :
        /\ sp_index' = index
        /\ sp_value' = value
        /\ gain' = IF index = 0 THEN StoreValue(value) ELSE gain
    /\ sp' = "lock"
    /\ UNCHANGED <<slotVars, h2g, g2h, editorVars, guiVars, audioVars>>

\* A presence check that always finds a sender.
SenderPresent_always == TRUE

\* line 50: `if let Some(host_to_gui_tx) = &*host_to_gui_tx`
SenderPresent == host_to_gui_tx

\* lines 43-50: take the read lock (waits for a writer) and look at the slot;
\* with no sender the guard is dropped and the call returns.
set_parameter_read_slot ==
    /\ sp = "lock"
    /\ ~TxWriteHeld
    /\ IF SenderPresent
       THEN sp' = "send" /\ UNCHANGED <<sp_index, sp_value>>
       ELSE sp' = "idle" /\ sp_index' = 0 /\ sp_value' = 0
    /\ UNCHANGED n_set
    /\ UNCHANGED <<storeVars, slotVars, h2g, g2h, editorVars, guiVars, audioVars>>

\* The message set_parameter sends.
ParamUpdateMsg(value) == [v |-> AsF64(value), src |-> "set_parameter"]

\* lines 52-57: Sender::send on the bounded channel, still under the read
\* guard: Err when the receiver is gone, and .expect panics (the unwinding
\* drops the guard and ends the thread's work); otherwise the send waits
\* until the queue has room.
set_parameter_send ==
    /\ sp = "send"
    /\ \/ /\ ~gui_running
          /\ sp' = "panicked"
          /\ h2g' = h2g
       \/ /\ gui_running
          /\ Len(h2g) < ChannelCapacity
          /\ h2g' = Append(h2g, ParamUpdateMsg(sp_value))
          /\ sp' = "idle"
    /\ sp_index' = 0
    /\ sp_value' = 0
    /\ UNCHANGED <<storeVars, slotVars, g2h, editorVars, guiVars, audioVars, n_set>>

\* --------------------------------------------- audio thread: process
\* A presence check that always finds a receiver.
ReceiverPresent_always == TRUE

\* line 90: `if let Some(gui_to_host_rx) = &*...read().unwrap()`
ReceiverPresent == gui_to_host_rx

\* line 90: RwLock::read() on the receiver slot (waits for a writer), then the
\* presence check; with no receiver the guard is dropped at once and, as
\* updated_gain is None, lines 101-106 are skipped.
process_gui_msgs_begin ==
    /\ ap = "idle"
    /\ ~RxWriteHeld
    /\ ap' = IF ReceiverPresent THEN "drain" ELSE "done"
    /\ UNCHANGED <<storeVars, slotVars, h2g, g2h, editorVars, guiVars, hostVars,
                   updated_gain, automation, polled, last_polled, written>>

\* Consolidation that keeps the first update of a buffer instead of the last.
Consolidate_keep_first(previous, value) ==
    IF IsSome(previous) THEN previous ELSE Some(AsF32(value))

\* What one received GuiToHost::ParamUpdate leaves in updated_gain (line 96).
Consolidate(previous, value) == Some(AsF32(value))

Saturate(n) == IF n < 2 THEN n + 1 ELSE n

\* lines 91-100: one turn of the try_iter loop under the read guard: a queued
\* message is taken, or the queue is empty, the loop ends and the guard drops.
process_gui_msgs_recv ==
    /\ ap = "drain"
    /\ IF g2h # <<>>
       THEN /\ updated_gain' = Consolidate(updated_gain, Head(g2h))
            /\ g2h' = Tail(g2h)
            /\ polled' = Saturate(polled)
            /\ last_polled' = Some(Head(g2h))
            /\ ap' = ap
       ELSE /\ ap' = IF IsSome(updated_gain) THEN "commit" ELSE "done"
            /\ UNCHANGED <<updated_gain, g2h, polled, last_polled>>
    /\ UNCHANGED <<storeVars, slotVars, h2g, editorVars, guiVars, hostVars,
                   automation, written>>

\* The host callbacks of lines 103-105.
Notify(new_gain) ==
    << <<"begin_edit", 0>>, <<"automate", 0, new_gain>>, <<"end_edit", 0>> >>

\* lines 101-106: the consolidated value is stored and the host is notified.
process_gui_msgs_commit ==
    /\ ap = "commit"
    /\ gain' = StoreValue(Unwrap(updated_gain))
    /\ written' = Append(written, Unwrap(updated_gain))
    /\ automation' = automation \o Notify(Unwrap(updated_gain))
    /\ ap' = "done"
    /\ UNCHANGED <<slotVars, h2g, g2h, editorVars, guiVars, hostVars,
                   updated_gain, polled, last_polled>>

\* lines 158-165: the gain is read, the buffer is scaled, process returns.
process_return ==
    /\ ap = "done"
    /\ ap' = "idle"
    /\ updated_gain' = None
    /\ automation' = <<>>
    /\ polled' = 0
    /\ last_polled' = None
    /\ written' = <<>>
    /\ UNCHANGED <<storeVars, slotVars, h2g, g2h, editorVars, guiVars, hostVars>>

\* ------------------------------------------------ editor thread: open
\* An open() without its guard.
AlreadyOpen_never == FALSE

\* lines 237-239: the guard of open().
AlreadyOpen == open

\* GainValue::new(0.0), DragState::default(), add_state(AppState::Idle), empty Events (create_app, lines 100-112); also
\* what is left of the App once it is dropped.
GuiReset ==
    /\ host_events' = <<>>
    /\ gui_events' = <<>>
    /\ relaying' = FALSE
    /\ app_state' = "Idle"
    /\ drag_start' = None
    /\ current' = 0
    /\ proposed' = None
    /\ gui_synced' = FALSE

\* A pre-population that sends GainValue's initial 0.0 instead of the gain.
PrepopulateMsg_default(g) == [v |-> AsF64(0), src |-> "open"]

\* The message open() sends first (line 250).
PrepopulateMsg(g) == [v |-> AsF64(g), src |-> "open"]

\* lines 235-252: the guard; then create_app makes two fresh bounded channels
\* and a running App that owns the GUI ends of both, and the current gain is
\* sent on the new, still private sender.
open_create_app ==
    /\ ed = "idle"
    /\ IF AlreadyOpen
       THEN /\ open_result' = Some(FALSE)
            /\ UNCHANGED <<ed, h2g, g2h, guiVars, prepop, drag_at_close>>
       ELSE /\ ed' = "open_sent"
            /\ gui_running' = TRUE
            /\ GuiReset
            /\ UNCHANGED n_emit
            /\ h2g' = <<PrepopulateMsg(gain)>>
            /\ g2h' = <<>>
            /\ prepop' = Some(AsF64(gain))
            /\ drag_at_close' = FALSE
            /\ UNCHANGED open_result
    /\ UNCHANGED <<storeVars, slotVars, open, hostVars, audioVars>>

\* line 254: RwLock::write() on the sender slot waits for its reader.
open_lock_tx ==
    /\ ed = "open_sent"
    /\ ~TxReadHeld
    /\ ed' = "open_tx_locked"
    /\ UNCHANGED <<storeVars, slotVars, h2g, g2h, open, open_result, prepop,
                   drag_at_close, guiVars, hostVars, audioVars>>

\* lines 255-256: the sender is installed, the write guard drops.
open_set_tx ==
    /\ ed = "open_tx_locked"
    /\ host_to_gui_tx' = TRUE
    /\ ed' = "open_tx_set"
    /\ UNCHANGED <<storeVars, gui_to_host_rx, h2g, g2h, open, open_result, prepop,
                   drag_at_close, guiVars, hostVars, audioVars>>

\* line 257: RwLock::write() on the receiver slot waits for its reader.
open_lock_rx ==
    /\ ed = "open_tx_set"
    /\ ~RxReadHeld
    /\ ed' = "open_rx_locked"
    /\ UNCHANGED <<storeVars, slotVars, h2g, g2h, open, open_result, prepop,
                   drag_at_close, guiVars, hostVars, audioVars>>

\* lines 258-263: the receiver is installed, the guard drops, open = true,
\* open() returns true.
open_set_rx ==
    /\ ed = "open_rx_locked"
    /\ gui_to_host_rx' = TRUE
    /\ open' = TRUE
    /\ open_result' = Some(TRUE)
    /\ ed' = "idle"
    /\ UNCHANGED <<storeVars, host_to_gui_tx, h2g, g2h, prepop, drag_at_close,
                   guiVars, hostVars, audioVars>>

\* ----------------------------------------------- editor thread: close
\* lines 266-269: open = false; app = None drops the App and with it the
\* GUI ends of both channels.
close_drop_app ==
    /\ ed = "idle"
    /\ open' = FALSE
    /\ gui_running' = FALSE
    /\ GuiReset
    /\ UNCHANGED n_emit
    /\ drag_at_close' = (gui_running /\ app_state = "AdjustingKnob")
    /\ open_result' = None
    /\ prepop' = None
    /\ ed' = "close_app_dropped"
    /\ UNCHANGED <<storeVars, slotVars, h2g, g2h, hostVars, audioVars>>

\* line 271: RwLock::write() on the sender slot waits for its reader.
close_lock_tx ==
    /\ ed = "close_app_dropped"
    /\ ~TxReadHeld
    /\ ed' = "close_tx_locked"
    /\ UNCHANGED <<storeVars, slotVars, h2g, g2h, open, open_result, prepop,
                   drag_at_close, guiVars, hostVars, audioVars>>

\* lines 272-273: the slot is cleared; the last sender goes and the
\* Host-to-GUI channel with it.
close_clear_tx ==
    /\ ed = "close_tx_locked"
    /\ host_to_gui_tx' = FALSE
    /\ h2g' = <<>>
    /\ ed' = "close_tx_cleared"
    /\ UNCHANGED <<storeVars, gui_to_host_rx, g2h, open, open_result, prepop,
                   drag_at_close, guiVars, hostVars, audioVars>>

\* line 274: RwLock::write() on the receiver slot waits for its reader.
close_lock_rx ==
    /\ ed = "close_tx_cleared"
    /\ ~RxReadHeld
    /\ ed' = "close_rx_locked"
    /\ UNCHANGED <<storeVars, slotVars, h2g, g2h, open, open_result, prepop,
                   drag_at_close, guiVars, hostVars, audioVars>>

\* A close() that leaves the receiver installed.
ClearedRx_kept == TRUE

\* What close() leaves in the receiver slot (line 275).
ClearedRx == FALSE

\* lines 275-277: the slot is cleared; the receiver goes and the GUI-to-Host
\* channel with it; close() returns.
close_clear_rx ==
    /\ ed = "close_rx_locked"
    /\ gui_to_host_rx' = ClearedRx
    /\ g2h' = IF ClearedRx THEN g2h ELSE <<>>
    /\ ed' = "idle"
    /\ UNCHANGED <<storeVars, host_to_gui_tx, h2g, open, open_result, prepop,
                   drag_at_close, guiVars, hostVars, audioVars>>

\* lines 279-281
is_open == open

\* ------------------------------------------------ GUI thread: the systems
\* lines 28-33: everything queued is moved into Events<HostToGui>.
host_to_gui_relay ==
    /\ gui_running
    /\ h2g # <<>>
    /\ host_events' = host_events \o h2g
    /\ h2g' = <<>>
    /\ UNCHANGED <<storeVars, slotVars, g2h, editorVars, gui_running, gui_events,
                   relaying, app_state, drag_start, current, proposed,
                   gui_synced, hostVars, audioVars, n_emit>>

\* A host update that keeps the proposal of the gesture in progress.
ProposedAfter_kept(events, old) == old

\* lines 46-49 applied to every event read: the last one decides.
CurrentAfter(events) == Last(events).v
ProposedAfter(events, old) == None

\* lines 43-52
update_from_host ==
    /\ gui_running
    /\ host_events # <<>>
    /\ current' = CurrentAfter(host_events)
    /\ proposed' = ProposedAfter(host_events, proposed)
    /\ host_events' = <<>>
    /\ gui_synced' = TRUE
    /\ prepop' = None
    /\ UNCHANGED <<storeVars, slotVars, h2g, g2h, open, ed, open_result,
                   drag_at_close, gui_running,
                   gui_events, relaying, app_state, drag_start, hostVars,
                   audioVars, n_emit>>

\* lines 146-161, with the left button just pressed.
idle ==
    /\ gui_running
    /\ app_state = "Idle"
    /\ app_state' = "AdjustingKnob"
    /\ \E cursor_position \in CursorYs : drag_start' = Some(cursor_position)
    /\ UNCHANGED <<storeVars, slotVars, h2g, g2h, editorVars, gui_running,
                   host_events, gui_events, relaying, current, proposed,
                   gui_synced, hostVars, audioVars, n_emit>>

\* line 208: delta.y / (wnd.height() / 1.5)
PercentOf(delta) == (delta * 3) \div (WINDOW_HEIGHT * 2)

\* A tick that adds the percentage to the value of the previous tick.
NewGain_additive(start, pos) ==
    Clamp01((IF IsSome(proposed) THEN Unwrap(proposed) ELSE current)
            + PercentOf(start - pos))

\* lines 211-212
NewGain(start, pos) == Clamp01(current + PercentOf(start - pos))

\* A release that emits the cached gain and drops the proposal.
knob_released_keep_current ==
    /\ app_state' = "Idle"
    /\ drag_start' = None
    /\ current' = current
    /\ gui_events' = Append(gui_events, current)
    /\ proposed' = proposed

\* lines 172-188: the left button was just released.
knob_released ==
    /\ app_state' = "Idle"
    /\ drag_start' = None
    /\ IF IsSome(proposed)
       THEN /\ current' = Unwrap(proposed)
            /\ gui_events' = Append(gui_events, Unwrap(proposed))
       ELSE /\ current' = current
            /\ gui_events' = Append(gui_events, current)
    /\ proposed' = proposed

\* lines 189-215: a tick of the drag.
knob_dragged ==
    /\ IsSome(drag_start)
    /\ \E cursor_position \in CursorYs :
        /\ gui_events' = Append(gui_events, NewGain(Unwrap(drag_start), cursor_position))
        /\ proposed' = Some(NewGain(Unwrap(drag_start), cursor_position))
    /\ UNCHANGED <<app_state, drag_start, current>>

\* line 235: the gain knob_render draws.
Displayed == IF IsSome(proposed) THEN Unwrap(proposed) ELSE current

\* lines 163-216; it shares Events<GuiToHost> with gui_to_host_relay, so the
\* two never overlap.
knob_activated ==
    /\ gui_running
    /\ app_state = "AdjustingKnob"
    /\ ~relaying
    /\ n_emit < MaxGuiEmits
    /\ n_emit' = n_emit + 1
    /\ (knob_released \/ knob_dragged)
    /\ UNCHANGED <<storeVars, slotVars, h2g, g2h, editorVars, gui_running,
                   host_events, relaying, gui_synced, hostVars, audioVars>>

\* line 36: the system starts reading its events.
gui_to_host_relay_begin ==
    /\ gui_running
    /\ ~relaying
    /\ gui_events # <<>>
    /\ relaying' = TRUE
    /\ UNCHANGED <<storeVars, slotVars, h2g, g2h, editorVars, gui_running,
                   host_events, gui_events, app_state, drag_start, current,
                   proposed, gui_synced, hostVars, audioVars, n_emit>>

\* lines 36-40, one turn of the loop: Sender::send waits until the queue has
\* room (the receiver outlives the App, so it is never Err).
gui_to_host_relay_send ==
    /\ gui_running
    /\ relaying
    /\ Len(g2h) < ChannelCapacity
    /\ g2h' = Append(g2h, Head(gui_events))
    /\ gui_events' = Tail(gui_events)
    /\ relaying' = (Tail(gui_events) # <<>>)
    /\ UNCHANGED <<storeVars, slotVars, h2g, editorVars, gui_running, host_events,
                   app_state, drag_start, current, proposed, gui_synced,
                   hostVars, audioVars, n_emit>>

Next ==
    \/ set_parameter_store
    \/ set_parameter_read_slot
    \/ set_parameter_send
    \/ process_gui_msgs_begin
    \/ process_gui_msgs_recv
    \/ process_gui_msgs_commit
    \/ process_return
    \/ open_create_app
    \/ open_lock_tx
    \/ open_set_tx
    \/ open_lock_rx
    \/ open_set_rx
    \/ close_drop_app
    \/ close_lock_tx
    \/ close_clear_tx
    \/ close_lock_rx
    \/ close_clear_rx
    \/ host_to_gui_relay
    \/ update_from_host
    \/ idle
    \/ knob_activated
    \/ gui_to_host_relay_begin
    \/ gui_to_host_relay_send

Spec == Init /\ [][Next]_vars

\* The GUI thread runs its schedule frame after frame, so the relay system
\* gets its turn and a send that has room completes; the host calls process()
\* buffer after buffer, and a call that can go on does.  Nothing is assumed
\* about the host's automation, the user or the editor.
Fairness ==
    /\ WF_vars(gui_to_host_relay_begin)
    /\ WF_vars(gui_to_host_relay_send)
    /\ WF_vars(process_gui_msgs_begin)
    /\ WF_vars(process_gui_msgs_recv)
    /\ WF_vars(process_gui_msgs_commit)
    /\ WF_vars(process_return)

FairSpec == Init /\ [][Next]_vars /\ Fairness

\* A host that automates the gain only: every set_parameter call is for
\* index 0.
set_parameter_gain == set_parameter_store /\ sp_index' = 0

NextGainOnly ==
    \/ set_parameter_gain
    \/ set_parameter_read_slot
    \/ set_parameter_send
    \/ process_gui_msgs_begin
    \/ process_gui_msgs_recv
    \/ process_gui_msgs_commit
    \/ process_return
    \/ open_create_app
    \/ open_lock_tx
    \/ open_set_tx
    \/ open_lock_rx
    \/ open_set_rx
    \/ close_drop_app
    \/ close_lock_tx
    \/ close_clear_tx
    \/ close_lock_rx
    \/ close_clear_rx
    \/ host_to_gui_relay
    \/ update_from_host
    \/ idle
    \/ knob_activated
    \/ gui_to_host_relay_begin
    \/ gui_to_host_relay_send

GainOnlySpec == Init /\ [][NextGainOnly]_vars

\* ================================================================ claims

\* C1: in every reachable state the Committed Gain held by the Parameter
\* Store lies in [0.0, 1.0], whoever wrote it last (set_parameter or the
\* per-buffer consumer).
C1_GainInRange == gain >= 0 /\ gain <= 1

\* C2: no sender ever waits for the consumer to drain a full queue: a thread
\* inside set_parameter's send, or inside gui_to_host_relay's send, can
\* always complete that send at once.
C2_SendNeverWaits ==
    /\ sp = "send" => ENABLED set_parameter_send
    /\ relaying => ENABLED gui_to_host_relay_send

\* C3: when a process call has finished process_gui_msgs, then if it received
\* k >= 1 GUI-to-Host events it stored exactly one value, the value of the
\* last event, and made exactly the calls begin_edit(0), automate(0, last),
\* end_edit(0) in that order; if k = 0 it stored nothing and made no call.
\* Before that point of the call nothing is stored and no call is made.
C3_Coalescing ==
    /\ ap \in {"idle", "drain", "commit"} => written = <<>> /\ automation = <<>>
    /\ ap = "done" /\ polled = 0 => written = <<>> /\ automation = <<>>
    /\ ap = "done" /\ polled >= 1 =>
        /\ written = <<Unwrap(last_polled)>>
        /\ automation = << <<"begin_edit", 0>>,
                           <<"automate", 0, Unwrap(last_polled)>>,
                           <<"end_edit", 0>> >>

\* C3 witness: a process call that received several events and notified once.
C3_Witness == ap = "done" /\ polled >= 2 /\ Len(automation) = 3 /\ Len(written) = 1

C5_ClosedSlotsAbsent ==
    ed = "idle" /\ ~is_open =>
        /\ ~host_to_gui_tx
        /\ ~gui_to_host_rx
        /\ sp # "send"
        /\ ap # "drain"

\* C5 witness: close() has returned on an editor whose GUI had emitted
\* events, and a set_parameter call is on its way to the slot check.
C5_Witness == ed = "idle" /\ ~is_open /\ n_emit >= 1 /\ sp = "lock"

\* C6: whenever no slot is being written, the two endpoint slots are both
\* present or both absent, and a present sender slot has a live GUI behind it.
C6_NoPartialState ==
    ~TxWriteHeld /\ ~RxWriteHeld =>
        /\ host_to_gui_tx <=> gui_to_host_rx
        /\ host_to_gui_tx => gui_running

\* C7: open() on an open editor returns false and changes nothing else: the
\* GUI keeps running, the slots, both queues and the GUI state stay as they
\* were and no event is sent.
C7_OpenGuarded ==
    [][open_create_app /\ is_open =>
        /\ open_result' = Some(FALSE)
        /\ gui_running /\ gui_running'
        /\ UNCHANGED <<storeVars, slotVars, h2g, g2h, open, ed, prepop,
                       drag_at_close, guiVars, hostVars, audioVars>>]_vars

\* C7 witness: an open editor whose last open() returned false.
C7_Witness ==
    is_open /\ ed = "idle" /\ open_result = Some(FALSE) /\ gui_running
    /\ host_to_gui_tx /\ gui_to_host_rx

\* Host-to-GUI events of the running GUI in arrival order: relayed ones, then
\* queued ones.
HostToGuiInFlight == host_events \o h2g

\* C8: until the GUI has consumed its first Host-to-GUI event, the first
\* event in flight is the one open() sent, it carries the gain open() read,
\* and every other event in flight (from set_parameter) is behind it; when
\* the GUI consumes it, Proposed Gain becomes absent and, unless later events
\* were consumed with it, the cached Committed Gain becomes that value.
C8_Prepopulation ==
    [][/\ gui_running /\ ~gui_synced =>
            /\ IsSome(prepop)
            /\ HostToGuiInFlight # <<>>
            /\ Head(HostToGuiInFlight) = [v |-> Unwrap(prepop), src |-> "open"]
            /\ \A i \in 2..Len(HostToGuiInFlight) :
                    HostToGuiInFlight[i].src = "set_parameter"
       /\ update_from_host /\ ~gui_synced =>
            /\ proposed' = None
            /\ Len(host_events) = 1 => current' = Unwrap(prepop)]_vars

\* C8 witness: a GUI that has consumed the pre-population event only (no
\* set_parameter call, no drag) and so shows the store's 1.0.
C8_Witness ==
    /\ gui_running /\ gui_synced /\ n_set = 0 /\ n_emit = 0
    /\ current = 1 /\ proposed = None

Closed == ed = "idle" /\ ~is_open

\* A step of close().
CloseStep ==
    close_drop_app \/ close_lock_tx \/ close_clear_tx \/ close_lock_rx
        \/ close_clear_rx

\* C9 as claimed: from the moment close() has returned until the next
\* open(), the Committed Gain changes only when the host writes it.
C9_ClosedGainStable ==
    [][Closed => gain' = gain \/ set_parameter_store]_vars

\* C9 amended: no step of close() changes the Committed Gain; a process call
\* that starts after close() has returned finds no receiver and goes
\* straight to its return; while the editor is closed the gain changes only
\* by a host write or by the commit of a process call that had drained its
\* events before the receiver slot was cleared; and no set_parameter call
\* panics while the editor is closed.
C9_ClosedOnlyInFlight ==
    [][/\ CloseStep => gain' = gain
       /\ Closed /\ process_gui_msgs_begin => ap' = "done"
       /\ Closed /\ ap # "commit" => gain' = gain \/ set_parameter_store
       /\ Closed /\ sp # "panicked" => sp' # "panicked"]_vars

\* C9 witness: close() has returned after finding a drag in progress, and a
\* set_parameter call follows.
C9_Witness == Closed /\ drag_at_close /\ sp = "lock" /\ ~gui_to_host_rx

\* C10: every step of a process call can be taken at once, whatever the
\* other threads hold.
C10_AudioNeverWaits ==
    /\ ap = "idle" => ENABLED process_gui_msgs_begin
    /\ ap = "drain" => ENABLED process_gui_msgs_recv
    /\ ap = "commit" => ENABLED process_gui_msgs_commit
    /\ ap = "done" => ENABLED process_return

\* C11: no thread is inside the channel send while it holds the sender
\* slot's read lock, so open() and close() get the slot's write lock as soon
\* as they ask for it.
C11_NoLockAcrossSend ==
    /\ sp = "send" => ~TxReadHeld
    /\ ed = "open_sent" => ENABLED open_lock_tx
    /\ ed = "close_app_dropped" => ENABLED close_lock_tx

\* C12: no set_parameter call ends in a panic, whatever open() and close()
\* do meanwhile and whatever the state of the Host-to-GUI queue.
C12_NeverPanics == sp # "panicked"

\* The step of knob_activated on which the button was just released.
ReleaseStep ==
    /\ gui_running /\ gui_running'
    /\ app_state = "AdjustingKnob" /\ app_state' = "Idle"

\* C13: a release in state Dragging makes the state Idle and clears the
\* gesture start; with a Proposed Gain p the cached gain becomes p and exactly
\* one event carrying p is emitted; without one the cached gain is unchanged
\* and exactly one event carrying it is emitted.
C13_ReleaseTransition ==
    [][ReleaseStep =>
        /\ drag_start' = None
        /\ IF IsSome(proposed)
           THEN /\ current' = Unwrap(proposed)
                /\ gui_events' = gui_events \o <<Unwrap(proposed)>>
           ELSE /\ current' = current
                /\ gui_events' = gui_events \o <<current>>]_vars

\* A release has committed a dragged value that differs from the gain the
\* GUI was populated with: the host never wrote, the store still holds 1.0.
C13_Witness ==
    /\ gui_running /\ gui_synced /\ n_set = 0 /\ gain = 1
    /\ app_state = "Idle" /\ drag_start = None
    /\ current = 0
    /\ gui_events # <<>> /\ Last(gui_events) = 0

\* C14: whenever the GUI state machine is Idle, Proposed Gain is absent.
C14_IdleNoProposal ==
    (gui_running /\ app_state = "Idle") => proposed = None

\* The step of knob_activated on which the button is still held.
TickStep ==
    /\ gui_running /\ gui_running'
    /\ app_state = "AdjustingKnob" /\ app_state' = "AdjustingKnob"
    /\ Len(gui_events') = Len(gui_events) + 1

\* v = clamp(base + (s - c)/(h/1.5), 0, 1) for a pointer row c of the window.
IsTickValue(v, base, s) ==
    \E c \in CursorYs : \E pct \in -1..1 :
        /\ pct * WINDOW_HEIGHT * 2 = (s - c) * 3
        /\ v = IF base + pct < 0 THEN 0 ELSE IF base + pct > 1 THEN 1 ELSE base + pct

\* C15: a drag tick sets Proposed Gain to
\* clamp(cached gain + (s.y - c.y)/(h/1.5), 0, 1), emits exactly one event
\* carrying that value and leaves the cached gain and the gesture start
\* unchanged; so while no host update intervenes the proposal, which is what a
\* release commits, is always one tick's percentage away from the cached gain
\* and never the sum over the ticks.
C15_DragTick ==
    [][/\ TickStep =>
            /\ IsSome(drag_start) /\ IsSome(proposed')
            /\ IsTickValue(Unwrap(proposed'), current, Unwrap(drag_start))
            /\ gui_events' = gui_events \o <<Unwrap(proposed')>>
            /\ current' = current /\ drag_start' = drag_start
       /\ (gui_running' /\ app_state' = "AdjustingKnob" /\ IsSome(proposed')) =>
            IsTickValue(Unwrap(proposed'), current', Unwrap(drag_start'))]_vars

\* Two ticks of one gesture against an out-of-range cached gain 2.0 written
\* by the host: both events carry clamp(2.0 - 1, 0, 1) = 1.0; a sum over the
\* ticks would have reached 0.0.
C15_Witness ==
    /\ gui_running /\ app_state = "AdjustingKnob" /\ drag_start = Some(0)
    /\ current = 2 /\ proposed = Some(1)
    /\ gui_events = <<1, 1>>

\* The step of update_from_host that consumes the relayed host events.
UpdateStep ==
    /\ gui_running /\ gui_running'
    /\ host_events # <<>> /\ host_events' = <<>>

\* C16: when the GUI consumes a Host-to-GUI update carrying v, Idle or
\* Dragging, its cached gain becomes v and Proposed Gain becomes absent, and
\* the state and the gesture start stay as they were.
C16_ResetOnHostUpdate ==
    [][UpdateStep =>
        /\ current' = host_events[Len(host_events)].v
        /\ proposed' = None
        /\ app_state' = app_state
        /\ drag_start' = drag_start]_vars

\* A host update 2.0 was consumed in the middle of a gesture: the GUI is
\* still Dragging from the same start, it has emitted a tick, and the
\* proposal is gone.
C16_Witness ==
    /\ gui_running /\ app_state = "AdjustingKnob" /\ IsSome(drag_start)
    /\ host_events = <<>> /\ h2g = <<>>
    /\ current = 2 /\ proposed = None
    /\ gui_events = <<0>> /\ n_emit = 1

\* A drag has just been released with final value v while the editor is open
\* and the host is not entering set_parameter.
Released(v) ==
    /\ open /\ ed = "idle" /\ gui_running
    /\ app_state = "Idle" /\ sp # "lock"
    /\ gui_events # <<>> /\ Last(gui_events) = v

\* The running process() call has stored v and notified the host of it.
Delivered(v) ==
    /\ ap = "done"
    /\ gain = AsF32(v)
    /\ \E i \in 1..Len(automation) : automation[i] = <<"automate", 0, AsF32(v)>>

\* The editor was closed, the host has entered set_parameter, or the user has
\* pressed the button again.
Disturbed == ~open \/ sp = "lock" \/ app_state = "AdjustingKnob"

\* C17: when a drag is released with final value v while the editor is open,
\* then eventually the store holds v and the host has been notified of v,
\* unless the editor is closed, the host calls set_parameter or the user
\* starts another gesture first.
C17_GuiCommitDelivered ==
    \A v \in 0..2 : Released(v) ~> (Delivered(v) \/ Disturbed)

\* The released value 0.0 has gone all the way: the GUI is Idle with nothing
\* left to relay and the process() call is about to return with the store
\* holding it.
C17_Witness ==
    /\ open /\ ed = "idle" /\ gui_running /\ app_state = "Idle"
    /\ n_emit = MaxGuiEmits /\ gui_events = <<>> /\ g2h = <<>>
    /\ current = 0 /\ Delivered(0)

\* C18: a set_parameter call for an index other than 0 leaves the store
\* unchanged and puts nothing on the Host-to-GUI queue.
C18_OtherIndexNoEffect ==
    [][/\ (sp = "idle" /\ sp' = "lock" /\ sp_index' # 0) => gain' = gain
       /\ (sp = "send" /\ sp' # "send" /\ sp_index # 0) => h2g' = h2g]_vars

\* The editor is open, both channels and both event buffers are empty, the GUI
\* is Idle and no set_parameter, process, open or close call is in progress.
Quiescent ==
    /\ open /\ ed = "idle" /\ gui_running
    /\ h2g = <<>> /\ g2h = <<>>
    /\ host_events = <<>> /\ gui_events = <<>> /\ ~relaying
    /\ app_state = "Idle"
    /\ sp = "idle" /\ ap = "idle"

\* C19: at quiescence the GUI's cached Committed Gain equals the store's,
\* whatever the interleaving of set_parameter(0, v) calls, gestures, GUI
\* ticks, process() calls and open().
C19_QuiescentConverged == Quiescent => current = AsF64(gain)

\* The step of idle on which the button was just pressed.
PressStep ==
    /\ gui_running /\ gui_running'
    /\ app_state = "Idle" /\ app_state' = "AdjustingKnob"

\* C20: whenever the GUI state machine is Idle the knob displays the cached
\* Committed Gain (Proposed Gain is absent or equal to it); a press keeps
\* that, only a tick, a release or a host update touches the two values and a
\* host update restores it, so a release that follows a press with no tick in
\* between leaves the cached Committed Gain unchanged.
C20_IdleDisplaysCurrent ==
    [][/\ (gui_running' /\ app_state' = "Idle") => Displayed' = current'
       /\ PressStep => (Displayed' = current' /\ current' = current)
       /\ UpdateStep => Displayed' = current'
       /\ (gui_running /\ gui_running' /\ ~TickStep /\ ~ReleaseStep /\ ~UpdateStep)
            => (current' = current /\ proposed' = proposed)
       /\ (ReleaseStep /\ Displayed = current) => current' = current]_vars

\* The gesture is over and its proposal is still there, equal to the cached
\* gain the release committed.
C20_Witness ==
    /\ gui_running /\ app_state = "Idle" /\ drag_start = None
    /\ proposed = Some(0) /\ current = 0 /\ gain = 1

====
